---- MODULE Spec2Model ----
(***************************************************************************)
(* Model of the Pubs client (src/src/models.ts, class Pubs): the           *)
(* connect / reconnect life cycle, the WebSocket handlers, the gate that   *)
(* defers sub()/unsub(), and the reply table of                            *)
(* sendStreamWebSocketPayload.                                             *)
(*                                                                         *)
(* One action is one task of the JavaScript event loop: a public call, a   *)
(* timer callback, the continuation after the handshake's await, or a      *)
(* WebSocket event handler, together with every promise reaction           *)
(* (microtask) it triggers, which run before the next task starts.         *)
(***************************************************************************)
EXTENDS Integers, Sequences, FiniteSets

\* ---------------------------------------------------------------- bounds
\* connect() calls in one behaviour (by the user or by the reconnect timer)
MaxCalls == 2
\* WebSockets created in one behaviour
MaxSockets == 2
\* sub() / unsub() / sendStreamWebSocketPayload() calls in one behaviour
MaxRequests == 2

\* the largest reconnectAttempts the reconnector closure is applied to on
\* its own
MaxAttempts == 9

\* ------------------------------------------------- PubsInit.options defaults
ReconnectInterval == 1000
MaxReconnectInterval == 30000
ReconnectSpreader == 500
StreamAckTimeout == 20000
\* reconnectFactor 1.5 as the fraction 3/2
ReconnectFactorNum == 3
ReconnectFactorDen == 2

\* Math.floor(Math.random() * reconnectSpreader): the two ends of 0..spreader-1
Jitters == {0, ReconnectSpreader - 1}
\* replyTimeout arguments of a direct sendStreamWebSocketPayload call
ReplyTimeouts == {-1, 0, 1000}
\* handshake outcomes: a stream URL, a forbidden response, another error,
\* a response with neither streamUrl nor error
FetchResults == {"ok", "http_error_403", "request_failed", "none"}
\* message.type of an inbound envelope
MessageTypes == {"hello", "goodbye", "ack", "event", "other"}

VARIABLES
    reconnectEnabled,    \* PubsInit.options.reconnectEnabled
    connecting,          \* Pubs.connecting
    connected,           \* Pubs.connected
    reconnecting,        \* Pubs.reconnecting
    closing,             \* Pubs.closing
    socket,              \* Pubs.socket: 0 (undefined) or an index of sockets
    reconnector,         \* Pubs.reconnector: 0 (no timer pending) or its delay
    reconnectAttempts,   \* Pubs.reconnectAttempts
    replyHandlers,       \* Pubs.replyHandlers: state id -> its timer is pending
    gate,                \* Pubs.gate: 0 ({}) or the connect() call that made it
    websocketSequence,   \* the module's websocketSequence counter
    calls,               \* one record per connect() call
    sockets,             \* one record per WebSocket created
    requests,            \* one record per sub / unsub / send call
    stateEvent,          \* the last PubsStateChangedEvent dispatched
    errorEvents          \* the codes of the PubsErrorEvents dispatched

vars == <<reconnectEnabled, connecting, connected, reconnecting, closing,
          socket, reconnector, reconnectAttempts, replyHandlers, gate,
          websocketSequence, calls, sockets, requests, stateEvent, errorEvents>>

\* the state as one record: the handlers below are functions from the state
\* before a handler runs to the state after it
This ==
    [reconnectEnabled |-> reconnectEnabled, connecting |-> connecting,
     connected |-> connected, reconnecting |-> reconnecting,
     closing |-> closing, socket |-> socket, reconnector |-> reconnector,
     reconnectAttempts |-> reconnectAttempts,
     replyHandlers |-> replyHandlers, gate |-> gate,
     websocketSequence |-> websocketSequence, calls |-> calls,
     sockets |-> sockets, requests |-> requests, stateEvent |-> stateEvent,
     errorEvents |-> errorEvents]

\* the next state is st
Becomes(st) ==
    /\ reconnectEnabled' = st.reconnectEnabled
    /\ connecting' = st.connecting
    /\ connected' = st.connected
    /\ reconnecting' = st.reconnecting
    /\ closing' = st.closing
    /\ socket' = st.socket
    /\ reconnector' = st.reconnector
    /\ reconnectAttempts' = st.reconnectAttempts
    /\ replyHandlers' = st.replyHandlers
    /\ gate' = st.gate
    /\ websocketSequence' = st.websocketSequence
    /\ calls' = st.calls
    /\ sockets' = st.sockets
    /\ requests' = st.requests
    /\ stateEvent' = st.stateEvent
    /\ errorEvents' = st.errorEvents

\* ------------------------------------------------------------- helpers

RECURSIVE Pow(_, _)
Pow(b, e) == IF e = 0 THEN 1 ELSE b * Pow(b, e - 1)

\* dispatchStateChangedEvent: new PubsStateChangedEvent(this) copies the flags
dispatchStateChangedEvent(st) ==
    [st EXCEPT !.stateEvent = [connecting |-> st.connecting,
                               connected |-> st.connected,
                               reconnecting |-> st.reconnecting]]

\* dispatchErrorEvent(err)
dispatchErrorEvent(st, code) ==
    [st EXCEPT !.errorEvents = Append(@, code)]

\* the delay the reconnector closure computes
ReconnectTimeout(fast, attempts, jitter) ==
    IF fast
    THEN ReconnectInterval
    ELSE LET grown == ReconnectInterval
                      * (Pow(ReconnectFactorNum, attempts)
                         \div Pow(ReconnectFactorDen, attempts))
             capped == IF grown > MaxReconnectInterval
                       THEN MaxReconnectInterval ELSE grown
         IN  capped + jitter

\* the reconnector closure of connect()
Reconnector(st, fast, jitter) ==
    IF ~st.reconnecting
    THEN [st EXCEPT !.reconnector = 0]
    ELSE [st EXCEPT
            !.reconnector = ReconnectTimeout(fast, st.reconnectAttempts, jitter),
            !.reconnectAttempts = @ + 1]

\* (PubsInit.options.reconnectEnabled || true)
ReconnectEnabledOrTrue(enabled) == IF enabled THEN enabled ELSE TRUE

\* socket.close() as the browser performs it
WsClose(s) ==
    IF s.readyState = "CLOSED" THEN s ELSE [s EXCEPT !.readyState = "CLOSING"]

\* closeStreamWebsocket(socket)
closeStreamWebsocket(st, s) ==
    [st EXCEPT !.closing = IF s = st.socket THEN TRUE ELSE @,
               !.sockets[s] = WsClose(@)]

\* ------------------------------------------------ sub / unsub / send

\* what the promise a caller holds becomes when the promise of its
\* sendStreamWebSocketPayload call takes `outcome`: a direct call holds that
\* promise itself; pubsub() chains only .then(() => resolve()) on it
PubsubThen(req, outcome) ==
    IF req.kind = "send" THEN outcome
    ELSE IF outcome = "resolved" THEN "resolved" ELSE req.promise

\* the promise of request r's sendStreamWebSocketPayload call takes outcome
SettleSend(req, outcome) ==
    [req EXCEPT !.send = outcome, !.promise = PubsubThen(req, outcome)]

\* if (replyTimeout === 0) replyTimeout = PubsInit.options.streamAckTimeout
EffectiveReplyTimeout(replyTimeout) ==
    IF replyTimeout = 0 THEN StreamAckTimeout ELSE replyTimeout

\* faulty variant of NoConnection: this.connected is not looked at
NoConnectionIgnoresConnected(st) == st.socket = 0 \/ st.closing

\* if (!this.connected || !this.socket || this.closing) reject no_connection
NoConnection(st) == ~st.connected \/ st.socket = 0 \/ st.closing

\* faulty variant of NextSequence: the counter stops at 1
NextSequenceStuck(seq) == IF seq = 0 THEN 1 ELSE seq

\* String(++websocketSequence)
NextSequence(seq) == seq + 1

\* this.replyHandlers.set(payload.state, {resolve, timeout})
SetHandler(handlers, id) ==
    [i \in DOMAIN handlers \cup {id} |-> IF i = id THEN TRUE ELSE handlers[i]]

\* sendStreamWebSocketPayload for request r (socket.send throws while the
\* socket is CONNECTING)
sendStreamWebSocketPayload(st, r) ==
    LET req == st.requests[r]
        replyTimeout == EffectiveReplyTimeout(req.replyTimeout)
        id == NextSequence(st.websocketSequence)
    IN  IF NoConnection(st)
        THEN [st EXCEPT !.requests[r] = SettleSend(req, "no_connection")]
        ELSE IF st.sockets[st.socket].readyState = "CONNECTING"
        THEN [st EXCEPT !.websocketSequence = id,
                        !.requests[r] = SettleSend([req EXCEPT !.state = id],
                                                   "send_error")]
        ELSE IF replyTimeout > 0
        THEN [st EXCEPT !.websocketSequence = id,
                        !.replyHandlers = SetHandler(@, id),
                        !.requests[r] =
                            SettleSend([req EXCEPT !.state = id,
                                                   !.sock = st.socket],
                                       "pending")]
        ELSE [st EXCEPT !.websocketSequence = id,
                        !.requests[r] =
                            SettleSend([req EXCEPT !.state = id,
                                                   !.sock = st.socket,
                                                   !.resolveTask = TRUE],
                                       "pending")]

\* the requests whose .then callback waits on the gate promise of call c
Waiting(reqs, c) ==
    {r \in DOMAIN reqs : reqs[r].gate = c /\ reqs[r].send = "none"}

\* gateResolve(): the callbacks registered on the gate promise run in the
\* order they were registered, each calling sendStreamWebSocketPayload
RECURSIVE gateResolve(_, _)
gateResolve(st, c) ==
    LET w == Waiting(st.requests, c)
    IN  IF w = {} THEN st
        ELSE LET r == CHOOSE x \in w : \A y \in w : x <= y
             IN  gateResolve(sendStreamWebSocketPayload(st, r), c)

NewRequest(kind, replyTimeout, g) ==
    [kind |-> kind, replyTimeout |-> replyTimeout, gate |-> g,
     send |-> "none", promise |-> "pending", state |-> 0, sock |-> 0,
     resolveTask |-> FALSE]

\* faulty variant of pubsub: the missing gate promise is not checked, the
\* call waits as on a pending gate
pubsubWithoutGateCheck(st, type) ==
    [st EXCEPT !.requests = Append(@, NewRequest("pubsub", 0, st.gate))]

\* pubsub(type, topics): without a gate promise the call is rejected; else
\* the send is chained on the gate promise and runs at once when that
\* promise is already resolved
pubsub(st, type) ==
    LET r == Len(st.requests) + 1
        req == NewRequest("pubsub", 0, st.gate)
        added == [st EXCEPT !.requests = Append(@, req)]
    IN  IF st.gate = 0
        THEN [added EXCEPT !.requests[r].promise = "no_gate"]
        ELSE IF st.calls[st.gate].gate = "resolved"
        THEN sendStreamWebSocketPayload(added, r)
        ELSE added

\* the request whose reply handler is registered under state id
Owner(reqs, id) == {r \in DOMAIN reqs : reqs[r].state = id}

\* a settle function of the promise under state id is called: it settles
\* the promise unless that is settled already
SettleReply(reqs, id, outcome) ==
    [r \in DOMAIN reqs |->
        IF r \in Owner(reqs, id) /\ reqs[r].send = "pending"
        THEN SettleSend(reqs[r], outcome)
        ELSE reqs[r]]

\* this.replyHandlers.delete(message.state)
DeleteHandler(handlers, id) ==
    [i \in DOMAIN handlers \ {id} |-> handlers[i]]

\* the reply timer registered under state id fires: reject(Error('timeout'))
replyTimeoutFired(st, id) ==
    [st EXCEPT !.replyHandlers[id] = FALSE,
               !.requests = SettleReply(@, id, "timeout")]

\* -------------------------------------------------------------- connect

\* connect() up to its first await: the handshake request is in flight
connect(st) ==
    LET flagged == [st EXCEPT
                      !.reconnector = 0,
                      !.reconnecting = ReconnectEnabledOrTrue(st.reconnectEnabled),
                      !.connecting = TRUE]
    IN  [dispatchStateChangedEvent(flagged) EXCEPT
            !.calls = Append(@, [fetching |-> TRUE, promise |-> "pending",
                                 gate |-> "pending", reject |-> TRUE]),
            !.gate = Len(st.calls) + 1]

\* the rejection handler of connectStreamWebSocket(...).then in connect()
connectRejected(st, c, err, jitter) ==
    IF st.reconnecting
    THEN Reconnector(st, FALSE, jitter)
    ELSE [st EXCEPT !.calls[c].reject = FALSE,
                    !.calls[c].promise = err,
                    !.calls[c].gate = "rejected"]

\* the fulfilment handler of connectStreamWebSocket(...).then in connect()
connectFulfilled(st, c) ==
    gateResolve([st EXCEPT !.reconnectAttempts = 0,
                           !.calls[c].reject = FALSE,
                           !.calls[c].promise = "resolved",
                           !.calls[c].gate = "resolved"], c)

\* reject(...) of the promise connectStreamWebSocket returned for socket s
rejectSocket(st, s, err, jitter) ==
    IF st.sockets[s].promise = "pending"
    THEN connectRejected([st EXCEPT !.sockets[s].promise = "rejected"],
                         st.sockets[s].call, err, jitter)
    ELSE st

\* resolve(...) of the promise connectStreamWebSocket returned for socket s
resolveSocket(st, s) ==
    IF st.sockets[s].promise = "pending"
    THEN connectFulfilled([st EXCEPT !.sockets[s].promise = "resolved"],
                          st.sockets[s].call)
    ELSE st

\* faulty variant of fetchFailed: a forbidden response is handled like any
\* other failure
fetchFailedForbiddenRetries(st, c, resp, jitter) ==
    LET idle == dispatchStateChangedEvent(
                    [st EXCEPT !.calls[c].fetching = FALSE,
                               !.connecting = FALSE])
    IN  IF idle.reconnecting
        THEN Reconnector(idle, FALSE, jitter)
        ELSE IF resp # "none"
        THEN [idle EXCEPT !.calls[c].promise = resp]
        ELSE [idle EXCEPT !.calls[c].promise = "unknown_error"]

\* the handshake of call c returned no streamUrl
fetchFailed(st, c, resp, jitter) ==
    LET idle == dispatchStateChangedEvent(
                    [st EXCEPT !.calls[c].fetching = FALSE,
                               !.connecting = FALSE])
    IN  IF idle.reconnecting
        THEN IF resp = "http_error_403"
             THEN Reconnector(
                      dispatchErrorEvent(
                          dispatchStateChangedEvent(
                              [idle EXCEPT !.reconnecting = FALSE]),
                          resp),
                      FALSE, jitter)
             ELSE Reconnector(idle, FALSE, jitter)
        ELSE IF resp # "none"
        THEN [idle EXCEPT !.calls[c].promise = resp]
        ELSE [idle EXCEPT !.calls[c].promise = "unknown_error"]

\* faulty variant of closeExisting: the old socket is detached, not closed
closeExistingWithoutClose(st) ==
    IF st.socket # 0
    THEN [st EXCEPT !.socket = 0, !.connected = FALSE]
    ELSE st

\* connectStreamWebSocket detaching and closing the socket it replaces
closeExisting(st) ==
    IF st.socket # 0
    THEN closeStreamWebsocket([st EXCEPT !.socket = 0, !.connected = FALSE],
                              st.socket)
    ELSE st

\* the WebSocket connectStreamWebSocket creates for call c
NewSocket(c, hasReconnector) ==
    [call |-> c, reconnector |-> hasReconnector, isTimeout |-> FALSE,
     timeout |-> TRUE, promise |-> "pending", onmessage |-> FALSE,
     readyState |-> "CONNECTING", opened |-> FALSE, rejectTask |-> FALSE,
     closeTask |-> FALSE]

\* connectStreamWebSocket(uri, this.reconnecting ? reconnector : undefined)
connectStreamWebSocket(st, c) ==
    LET detached == closeExisting(st)
    IN  [detached EXCEPT
            !.sockets = Append(@, NewSocket(c, st.reconnecting)),
            !.closing = FALSE,
            !.socket = Len(st.sockets) + 1]

\* the handshake of call c returned a stream URL
fetchOk(st, c) ==
    connectStreamWebSocket([st EXCEPT !.calls[c].fetching = FALSE], c)

\* --------------------------------------------------- WebSocket handlers

\* the connect timer of socket s fires
connectTimeout(st, s, jitter) ==
    LET marked == [st EXCEPT !.sockets[s].isTimeout = TRUE,
                             !.sockets[s].timeout = FALSE,
                             !.sockets[s].closeTask = TRUE]
        detached == IF s = st.socket
                    THEN dispatchStateChangedEvent(
                             [marked EXCEPT !.socket = 0,
                                            !.connected = FALSE,
                                            !.connecting = FALSE])
                    ELSE marked
    IN  rejectSocket(detached, s, "connect_timeout", jitter)

\* socket.onopen
onopen(st, s) ==
    LET cleared == [st EXCEPT !.sockets[s].timeout = FALSE]
    IN  IF cleared.sockets[s].isTimeout THEN cleared
        ELSE IF s # cleared.socket THEN closeStreamWebsocket(cleared, s)
        ELSE resolveSocket(
                 [dispatchStateChangedEvent(
                      [cleared EXCEPT !.connected = TRUE,
                                      !.connecting = FALSE])
                  EXCEPT !.sockets[s].onmessage = TRUE], s)

\* faulty variant of StaleCloseReconnects: this.socket is not looked at
StaleCloseReconnectsBesideSocket(st, s) ==
    ~st.connecting /\ st.sockets[s].reconnector

\* a close event of a socket that is not this.socket calls reconnector(true)
StaleCloseReconnects(st, s) ==
    st.socket = 0 /\ ~st.connecting /\ st.sockets[s].reconnector

\* faulty variant of onclose: isTimeout is not looked at
oncloseIgnoresTimeout(st, s, jitter) ==
    LET cleared == [st EXCEPT !.sockets[s].timeout = FALSE]
    IN  IF s # cleared.socket
        THEN IF StaleCloseReconnects(cleared, s)
             THEN Reconnector(cleared, TRUE, jitter)
             ELSE cleared
        ELSE LET lost == dispatchStateChangedEvent(
                             [cleared EXCEPT !.socket = 0,
                                             !.closing = FALSE,
                                             !.connected = FALSE,
                                             !.connecting = FALSE])
             IN  IF cleared.sockets[s].reconnector
                 THEN Reconnector(lost, FALSE, jitter)
                 ELSE lost

\* faulty variant of onclose: the close of this.socket schedules no retry
oncloseWithoutRetry(st, s, jitter) ==
    LET cleared == [st EXCEPT !.sockets[s].timeout = FALSE]
    IN  IF cleared.sockets[s].isTimeout THEN cleared
        ELSE IF s # cleared.socket
        THEN IF StaleCloseReconnects(cleared, s)
             THEN Reconnector(cleared, TRUE, jitter)
             ELSE cleared
        ELSE dispatchStateChangedEvent(
                 [cleared EXCEPT !.socket = 0,
                                 !.closing = FALSE,
                                 !.connected = FALSE,
                                 !.connecting = FALSE])

\* socket.onclose
onclose(st, s, jitter) ==
    LET cleared == [st EXCEPT !.sockets[s].timeout = FALSE]
    IN  IF cleared.sockets[s].isTimeout THEN cleared
        ELSE IF s # cleared.socket
        THEN IF StaleCloseReconnects(cleared, s)
             THEN Reconnector(cleared, TRUE, jitter)
             ELSE cleared
        ELSE LET lost == dispatchStateChangedEvent(
                             [cleared EXCEPT !.socket = 0,
                                             !.closing = FALSE,
                                             !.connected = FALSE,
                                             !.connecting = FALSE])
             IN  IF cleared.sockets[s].reconnector
                 THEN Reconnector(lost, FALSE, jitter)
                 ELSE lost

\* faulty variant of onerror: this.connected is left as it was
onerrorKeepsConnected(st, s) ==
    LET cleared == [st EXCEPT !.sockets[s].timeout = FALSE]
    IN  IF cleared.sockets[s].isTimeout THEN cleared
        ELSE LET queued == [cleared EXCEPT !.sockets[s].rejectTask = TRUE]
             IN  IF s # queued.socket THEN queued
                 ELSE dispatchStateChangedEvent(
                          dispatchErrorEvent(
                              [queued EXCEPT !.socket = 0,
                                             !.connecting = FALSE],
                              "websocket_error"))

\* socket.onerror
onerror(st, s) ==
    LET cleared == [st EXCEPT !.sockets[s].timeout = FALSE]
    IN  IF cleared.sockets[s].isTimeout THEN cleared
        ELSE LET queued == [cleared EXCEPT !.sockets[s].rejectTask = TRUE]
             IN  IF s # queued.socket THEN queued
                 ELSE dispatchStateChangedEvent(
                          dispatchErrorEvent(
                              [queued EXCEPT !.socket = 0,
                                             !.connected = FALSE,
                                             !.connecting = FALSE],
                              "websocket_error"))

\* case 'ack' of handleStreamWebSocketMessage
handleAck(st, id) ==
    IF id \in DOMAIN st.replyHandlers
    THEN [st EXCEPT !.replyHandlers = DeleteHandler(@, id),
                    !.requests = SettleReply(@, id, "resolved")]
    ELSE st

\* faulty variant of handleGoodbye: reconnectAttempts is left as it was
handleGoodbyeKeepsAttempts(st) ==
    [closeStreamWebsocket(st, st.socket) EXCEPT !.connected = FALSE]

\* case 'goodbye' of handleStreamWebSocketMessage
handleGoodbye(st) ==
    [closeStreamWebsocket([st EXCEPT !.reconnectAttempts = 1], st.socket)
     EXCEPT !.connected = FALSE]

\* handleStreamWebSocketMessage for a message of socket s.  hello, event and
\* unknown types change no field of the instance (an event is handed to
\* onstreamevent only).
handleStreamWebSocketMessage(st, s, type, id) ==
    IF s # st.socket
    THEN [st EXCEPT !.sockets[s] = WsClose(@)]
    ELSE CASE type = "goodbye" -> handleGoodbye(st)
           [] type = "ack" -> handleAck(st, id)
           [] OTHER -> st

\* ----------------------------------------------------------------- Init

Init ==
    /\ reconnectEnabled = TRUE
    /\ connecting = FALSE
    /\ connected = FALSE
    /\ reconnecting = FALSE
    /\ closing = FALSE
    /\ socket = 0
    /\ reconnector = 0
    /\ reconnectAttempts = 0
    /\ replyHandlers = << >>
    /\ gate = 0
    /\ websocketSequence = 0
    /\ calls = << >>
    /\ sockets = << >>
    /\ requests = << >>
    /\ stateEvent = "none"
    /\ errorEvents = << >>

\* -------------------------------------------------------------- actions

\* the user calls connect()
Connect ==
    /\ Len(calls) < MaxCalls
    /\ Becomes(connect(This))

\* the reconnect timer fires: this.connect()
ReconnectorFire ==
    /\ reconnector # 0
    /\ Len(calls) < MaxCalls
    /\ Becomes(connect(This))

\* the continuation of connect() after await fetchStreamWebSocketConnect,
\* without a stream URL
FetchFailed ==
    \E c \in DOMAIN calls : \E resp \in FetchResults \ {"ok"} :
        \E jitter \in Jitters :
            /\ calls[c].fetching
            /\ Becomes(fetchFailed(This, c, resp, jitter))

\* the continuation of connect() after await fetchStreamWebSocketConnect,
\* with a stream URL
FetchOk ==
    \E c \in DOMAIN calls :
        /\ calls[c].fetching
        /\ Len(sockets) < MaxSockets
        /\ Becomes(fetchOk(This, c))

\* the connect timer of a socket fires (no open, close or error event of
\* the socket has cleared it)
ConnectTimeout ==
    \E s \in DOMAIN sockets : \E jitter \in Jitters :
        /\ sockets[s].timeout
        /\ Becomes(connectTimeout(This, s, jitter))

\* the setTimeout(..., 0) of the connect timer: closeStreamWebsocket(socket)
CloseTask ==
    \E s \in DOMAIN sockets :
        /\ sockets[s].closeTask
        /\ Becomes(closeStreamWebsocket(
                       [This EXCEPT !.sockets[s].closeTask = FALSE], s))

\* the browser fires open at a socket: the connection is established (or
\* was, when close() was called on the socket while it was CONNECTING)
SocketOpen ==
    \E s \in DOMAIN sockets :
        /\ ~sockets[s].opened
        /\ sockets[s].readyState \in {"CONNECTING", "CLOSING"}
        /\ Becomes(onopen(
               [This EXCEPT !.sockets[s].opened = TRUE,
                            !.sockets[s].readyState =
                                IF @ = "CONNECTING" THEN "OPEN" ELSE @], s))

\* the browser fires close at a socket whose connection was closed
SocketClose ==
    \E s \in DOMAIN sockets : \E jitter \in Jitters :
        /\ sockets[s].readyState # "CLOSED"
        /\ Becomes(onclose(
               [This EXCEPT !.sockets[s].readyState = "CLOSED"], s, jitter))

\* the browser fires error and then close, in one task, at a socket whose
\* connection failed
SocketFail ==
    \E s \in DOMAIN sockets : \E jitter \in Jitters :
        /\ sockets[s].readyState # "CLOSED"
        /\ Becomes(onclose(
               onerror([This EXCEPT !.sockets[s].readyState = "CLOSED"], s),
               s, jitter))

\* the setTimeout(() => reject(event), 0) of socket.onerror
RejectTask ==
    \E s \in DOMAIN sockets : \E jitter \in Jitters :
        /\ sockets[s].rejectTask
        /\ Becomes(rejectSocket(
               [This EXCEPT !.sockets[s].rejectTask = FALSE], s,
               "websocket_error", jitter))

\* a message arrives on a socket whose onmessage is set
Message ==
    \E s \in DOMAIN sockets : \E type \in MessageTypes :
        \E id \in 1..(websocketSequence + 1) :
            /\ sockets[s].onmessage
            /\ sockets[s].readyState # "CLOSED"
            /\ Becomes(handleStreamWebSocketMessage(This, s, type, id))

\* the user calls sub(topics) or unsub(topics)
Sub ==
    /\ Len(requests) < MaxRequests
    /\ \E type \in {"sub", "unsub"} : Becomes(pubsub(This, type))

\* the user calls sendStreamWebSocketPayload(payload, replyTimeout)
Send ==
    /\ Len(requests) < MaxRequests
    /\ \E replyTimeout \in ReplyTimeouts :
          Becomes(sendStreamWebSocketPayload(
              [This EXCEPT !.requests =
                  Append(@, NewRequest("send", replyTimeout, 0))],
              Len(requests) + 1))

\* the reply timer of a pending reply fires
ReplyTimeout ==
    \E id \in DOMAIN replyHandlers :
        /\ replyHandlers[id]
        /\ Becomes(replyTimeoutFired(This, id))

\* setTimeout(resolve, 0) of a send without reply timeout
ResolveTask ==
    \E r \in DOMAIN requests :
        /\ requests[r].resolveTask
        /\ Becomes([This EXCEPT
               !.requests[r] =
                   SettleSend([@ EXCEPT !.resolveTask = FALSE], "resolved")])

\* ------------------------------------------------------------------ Spec

Next ==
    \/ Connect
    \/ ReconnectorFire
    \/ FetchFailed
    \/ FetchOk
    \/ ConnectTimeout
    \/ CloseTask
    \/ SocketOpen
    \/ SocketClose
    \/ SocketFail
    \/ RejectTask
    \/ Message
    \/ Sub
    \/ Send
    \/ ReplyTimeout
    \/ ResolveTask

Spec == Init /\ [][Next]_vars

\* the instance after PubsInit.init({reconnectEnabled: ...}) was called with
\* either value
InitConfigured ==
    /\ reconnectEnabled \in BOOLEAN
    /\ connecting = FALSE
    /\ connected = FALSE
    /\ reconnecting = FALSE
    /\ closing = FALSE
    /\ socket = 0
    /\ reconnector = 0
    /\ reconnectAttempts = 0
    /\ replyHandlers = << >>
    /\ gate = 0
    /\ websocketSequence = 0
    /\ calls = << >>
    /\ sockets = << >>
    /\ requests = << >>
    /\ stateEvent = "none"
    /\ errorEvents = << >>

SpecConfigured == InitConfigured /\ [][Next]_vars

\* the reconnector closure on its own: an instance with reconnecting true
\* and any attempt counter ...
InitReconnector ==
    /\ reconnectEnabled = TRUE
    /\ connecting = FALSE
    /\ connected = FALSE
    /\ reconnecting = TRUE
    /\ closing = FALSE
    /\ socket = 0
    /\ reconnector = 0
    /\ reconnectAttempts \in 0..MaxAttempts
    /\ replyHandlers = << >>
    /\ gate = 0
    /\ websocketSequence = 0
    /\ calls = << >>
    /\ sockets = << >>
    /\ requests = << >>
    /\ stateEvent = "none"
    /\ errorEvents = << >>

\* ... on which reconnector(fast) is called once, Math.random() giving any
\* jitter below the spreader
Schedule ==
    \E fast \in BOOLEAN : \E jitter \in 0..(ReconnectSpreader - 1) :
        /\ reconnector = 0
        /\ Becomes(Reconnector(This, fast, jitter))

SpecReconnector == InitReconnector /\ [][Schedule]_vars

\* ================================================================ claims

\* a handshake request is in flight
Fetching == \E c \in DOMAIN calls : calls[c].fetching

\* the client is connected and no connect attempt, retry timer or deferred
\* rejection is outstanding
ConnectedAtRest ==
    /\ connected
    /\ socket # 0
    /\ ~Fetching
    /\ reconnector = 0
    /\ \A s \in DOMAIN sockets : ~sockets[s].rejectTask /\ ~sockets[s].timeout

\* no handshake was answered with forbidden: reconnecting was never
\* cleared, so no attempt was abandoned and every failure scheduled a retry
NoAttemptAbandoned ==
    \A i \in DOMAIN errorEvents : errorEvents[i] # "http_error_403"

\* ---------------------------------------------------------------- C1
\* a socket that is not this.socket is closing, closed, or timed out with
\* its close queued
Detached(s) ==
    \/ sockets[s].readyState \in {"CLOSING", "CLOSED"}
    \/ sockets[s].closeTask

\* C1: at most one socket is attached: every socket other than this.socket
\* has been closed (or its close is queued), and a step that attaches a new
\* socket while another is attached leaves the old one with close() called
\* and connected = false.
C1_OneSocketAttached ==
    /\ [](\A s \in DOMAIN sockets : s # socket => Detached(s))
    /\ [][(socket # 0 /\ socket' # 0 /\ socket' # socket)
            => /\ sockets'[socket].readyState \in {"CLOSING", "CLOSED"}
               /\ ~connected'
               /\ sockets'[socket'].readyState = "CONNECTING"]_vars

C1_Witness ==
    /\ Len(sockets) = 2
    /\ socket = 2
    /\ sockets[1].opened
    /\ sockets[1].readyState = "CLOSING"
    /\ ~connected

\* ---------------------------------------------------------------- C2
\* C2: connected and connecting are never both true.
C2_NotConnectedAndConnecting == ~(connected /\ connecting)

\* ---------------------------------------------------------------- C3
\* C3: once the client is connected (no attempt or retry is outstanding and
\* none was abandoned), no sub()/unsub() call that was deferred on a gate is
\* still waiting to be transmitted.
C3_DeferredRequestSent ==
    (ConnectedAtRest /\ NoAttemptAbandoned) =>
        \A r \in DOMAIN requests :
            (requests[r].kind = "pubsub" /\ requests[r].gate # 0)
                => requests[r].send # "none"

\* ---------------------------------------------------------------- C4
\* C4: once the client is connected (no attempt or retry is outstanding and
\* none was abandoned), no result of a connect() call is still pending.
C4_ConnectResultSettled ==
    (ConnectedAtRest /\ NoAttemptAbandoned) =>
        \A c \in DOMAIN calls : calls[c].promise # "pending"

\* ---------------------------------------------------------------- C5
\* a connect attempt is in flight: a handshake request is unanswered, or a
\* socket is attached and either being opened under its connect timer or
\* being closed after a goodbye (its close event, which schedules the
\* retry, is still to come)
AttemptInFlight ==
    \/ Fetching
    \/ /\ socket # 0
       /\ sockets[socket].readyState # "CLOSED"
       /\ sockets[socket].timeout \/ closing

\* C5: while reconnecting is enabled and the client is not connected, a
\* connect attempt is in flight or the retry timer is pending.
C5_RetryScheduled ==
    (reconnecting /\ ~connected) => (AttemptInFlight \/ reconnector # 0)

\* the established socket was lost and the retry timer is pending
C5_Witness ==
    /\ reconnecting /\ ~connected /\ ~AttemptInFlight
    /\ reconnector # 0
    /\ \E s \in DOMAIN sockets :
          sockets[s].promise = "resolved" /\ sockets[s].readyState = "CLOSED"


\* ---------------------------------------------------------------- C6
\* C6: a sub()/unsub() call made before any connect() call is rejected with
\* no_gate at once, its send is never invoked, it takes no state id, and the
\* counter and the reply table stay as they were.
C6_NoGateRejected ==
    [][(Len(calls) = 0 /\ Len(requests') = Len(requests) + 1
            /\ requests'[Len(requests')].kind = "pubsub")
        => /\ requests'[Len(requests')].promise = "no_gate"
           /\ requests'[Len(requests')].send = "none"
           /\ requests'[Len(requests')].state = 0
           /\ requests'[Len(requests')].sock = 0
           /\ UNCHANGED <<websocketSequence, replyHandlers>>]_vars

C6_Witness ==
    \E r \in DOMAIN requests :
        /\ requests[r].kind = "pubsub"
        /\ requests[r].promise = "no_gate"
        /\ requests[r].gate = 0

\* ---------------------------------------------------------------- C7
\* C7: a sub()/unsub() call whose send failed (no_connection, timeout, or
\* an error thrown by the socket) is rejected with that failure.
C7_SendFailureReturned ==
    \A r \in DOMAIN requests :
        (requests[r].kind = "pubsub"
            /\ requests[r].send \in {"no_connection", "timeout", "send_error"})
        => requests[r].promise = requests[r].send

\* ---------------------------------------------------------------- C8
\* C8: a send invoked by a call made while connected is false, or no socket
\* is attached, or closing is true, fails with no_connection (which a direct
\* caller receives); the call takes no state id, transmits nothing, queues
\* nothing, and changes nothing but its own record.
C8_NoConnectionFails ==
    [][(Len(requests') = Len(requests) + 1
            /\ requests'[Len(requests')].send # "none"
            /\ (~connected \/ socket = 0 \/ closing))
        => /\ requests'[Len(requests')].send = "no_connection"
           /\ requests'[Len(requests')].kind = "send"
                 => requests'[Len(requests')].promise = "no_connection"
           /\ requests'[Len(requests')].state = 0
           /\ requests'[Len(requests')].sock = 0
           /\ ~requests'[Len(requests')].resolveTask
           /\ SubSeq(requests', 1, Len(requests)) = requests
           /\ UNCHANGED <<reconnectEnabled, connecting, connected,
                          reconnecting, closing, socket, reconnector,
                          reconnectAttempts, replyHandlers, gate,
                          websocketSequence, calls, sockets, stateEvent,
                          errorEvents>>]_vars

\* a direct send was refused while a socket was attached (being opened, or
\* being closed after a goodbye)
C8_Witness ==
    /\ socket # 0
    /\ (~connected \/ closing)
    /\ Len(requests) > 0
    /\ requests[Len(requests)].kind = "send"
    /\ requests[Len(requests)].promise = "no_connection"

\* ---------------------------------------------------------------- C9
\* C9: a direct send with replyTimeout 0 that was transmitted is resolved
\* (or its resolution is queued) without a reply handler being registered
\* for it, and it never fails with timeout.
C9_ZeroTimeoutSettlesAtOnce ==
    \A r \in DOMAIN requests :
        (requests[r].kind = "send" /\ requests[r].replyTimeout = 0
            /\ requests[r].sock # 0)
        => /\ requests[r].promise = "resolved" \/ requests[r].resolveTask
           /\ requests[r].state \notin DOMAIN replyHandlers

\* --------------------------------------------------------------- C10
\* an ack carrying state id arrives on this.socket
AckOnSocket(id) == handleStreamWebSocketMessage(This, socket, "ack", id)

\* C10: no two requests carry the same state id, every entry of the reply
\* table belongs to exactly one request, every send takes an id larger than
\* all ids taken before, and an ack whose id is not in the reply table
\* changes nothing.
C10_UniqueCorrelationIds ==
    /\ [](/\ \A r1, r2 \in DOMAIN requests :
                (r1 # r2 /\ requests[r1].state # 0)
                    => requests[r1].state # requests[r2].state
          /\ \A id \in DOMAIN replyHandlers :
                Cardinality(Owner(requests, id)) = 1
          /\ socket # 0 =>
                \A id \in (1..(websocketSequence + 1)) \ DOMAIN replyHandlers :
                    AckOnSocket(id) = This)
    /\ [][\A r \in DOMAIN requests' :
            ((r \notin DOMAIN requests \/ requests[r].state = 0)
                /\ requests'[r].state # 0)
            => /\ requests'[r].state > websocketSequence
               /\ requests'[r].state <= websocketSequence']_vars

\* two replies are pending at once on the attached socket
C10_Witness ==
    /\ connected
    /\ socket # 0
    /\ Cardinality(DOMAIN replyHandlers) = 2
    /\ \A r \in DOMAIN requests : requests[r].send = "pending"


\* --------------------------------------------------------------- C11
\* the task in which the handshake of call c is answered with http_error_403
Forbidden(c, jitter) ==
    /\ calls[c].fetching
    /\ Becomes(fetchFailed(This, c, "http_error_403", jitter))

\* C11: a handshake answered with http_error_403 while reconnecting is true
\* dispatches exactly one error event, with that code, sets reconnecting to
\* false (and dispatches it), leaves no reconnect timer pending and starts
\* no connect attempt; and while reconnecting is false no reconnect timer is
\* ever pending, so only a connect() call starts the next attempt.
C11_ForbiddenGivesUp ==
    /\ [][\A c \in DOMAIN calls : \A jitter \in Jitters :
            (reconnecting /\ Forbidden(c, jitter))
            => /\ errorEvents' = Append(errorEvents, "http_error_403")
               /\ ~reconnecting'
               /\ stateEvent'.reconnecting = FALSE
               /\ reconnector' = 0
               /\ Len(calls') = Len(calls)
               /\ Len(sockets') = Len(sockets)]_vars
    /\ [](~reconnecting => reconnector = 0)

\* a forbidden response was received while a retry of an earlier failure
\* was under way
C11_Witness ==
    /\ Len(calls) = 2
    /\ errorEvents = <<"http_error_403">>
    /\ ~reconnecting
    /\ reconnector = 0
    /\ ~Fetching

\* --------------------------------------------------------------- C12
\* C12: once an http_error_403 response was received, reconnecting is false
\* in every later state and no reconnect timer is set.
C12_ForbiddenIsFinal ==
    (\E i \in DOMAIN errorEvents : errorEvents[i] = "http_error_403")
    => (~reconnecting /\ reconnector = 0)


\* --------------------------------------------------------------- C13
\* call c has failed: its handshake is over and no socket was created for it
HandshakeFailed(c) ==
    /\ ~calls[c].fetching
    /\ \A s \in DOMAIN sockets : sockets[s].call # c

\* C13: connect() sets reconnecting to the configured reconnectEnabled; and
\* with reconnectEnabled configured false no reconnect timer is ever set and
\* a call whose handshake failed is rejected.
C13_ReconnectingAsConfigured ==
    /\ [][Len(calls') > Len(calls) => reconnecting' = reconnectEnabled]_vars
    /\ [](~reconnectEnabled =>
            /\ reconnector = 0
            /\ \A c \in DOMAIN calls :
                  HandshakeFailed(c) => calls[c].promise # "pending")


\* --------------------------------------------------------------- C14
\* this step is the call reconnector(fast) with Math.random() giving jitter
Scheduling(fast, jitter) ==
    reconnector = 0 /\ Becomes(Reconnector(This, fast, jitter))

\* delay is min(interval * factor^attempts, maxInterval) + jitter, compared
\* after multiplying both sides by ReconnectFactorDen^attempts
IsBackoffDelay(delay, attempts, jitter) ==
    LET den == Pow(ReconnectFactorDen, attempts)
        grown == ReconnectInterval * Pow(ReconnectFactorNum, attempts)
        capped == IF grown > MaxReconnectInterval * den
                  THEN MaxReconnectInterval * den ELSE grown
    IN  (delay - jitter) * den = capped

\* C14: reconnector(true) sets the timer to the reconnect interval, and
\* reconnector(false) sets it to
\* min(interval * factor^attempts, maxInterval) + jitter, for the default
\* factor 1.5 and every attempts in 0..MaxAttempts.
C14_BackoffDelay ==
    [][\A fast \in BOOLEAN : \A jitter \in 0..(ReconnectSpreader - 1) :
         Scheduling(fast, jitter)
         => IF fast THEN reconnector' = ReconnectInterval
            ELSE IsBackoffDelay(reconnector', reconnectAttempts, jitter)]_vars


\* --------------------------------------------------------------- C15
\* this step is the connect timer of socket s firing
TimerFires(s) ==
    /\ sockets[s].timeout
    /\ \E jitter \in Jitters : Becomes(connectTimeout(This, s, jitter))

\* the fields of the instance, and the promises handed to its callers
instance == <<connecting, connected, reconnecting, closing, socket,
              reconnector, reconnectAttempts, replyHandlers, gate,
              websocketSequence, calls, requests, stateEvent, errorEvents>>

\* C15: (1) when the connect timer of a socket fires, no open, close or
\* error event of the socket has been handled; the socket is marked timed
\* out, its close is queued, the promise of its connectStreamWebSocket call
\* is rejected with connect_timeout (a retry is scheduled while reconnecting,
\* else the connect() call is rejected with connect_timeout), and if it was
\* this.socket it is detached with connected and connecting false and the
\* state dispatched; (2) a timed-out socket is closed, or its close is
\* queued; (3) no later step that changes a timed-out socket (its close()
\* call, its open, close or error event) changes the instance; (4) a connect
\* timer is pending only on a socket that had no open, close or error
\* event, and once cleared it is never pending again.
C15_ConnectTimeout ==
    /\ [][\A s \in DOMAIN sockets : TimerFires(s) =>
            /\ ~sockets[s].opened
            /\ sockets[s].readyState # "CLOSED"
            /\ sockets[s].promise = "pending"
            /\ sockets'[s].isTimeout
            /\ sockets'[s].closeTask
            /\ sockets'[s].promise = "rejected"
            /\ IF reconnecting
               THEN reconnector' # 0
                    /\ reconnectAttempts' = reconnectAttempts + 1
               ELSE calls'[sockets[s].call].promise = "connect_timeout"
            /\ IF s = socket
               THEN /\ socket' = 0
                    /\ ~connected'
                    /\ ~connecting'
                    /\ stateEvent' = [connecting |-> FALSE,
                                      connected |-> FALSE,
                                      reconnecting |-> reconnecting]
               ELSE UNCHANGED <<socket, connected, connecting, stateEvent>>]_vars
    /\ [](\A s \in DOMAIN sockets :
            sockets[s].isTimeout =>
                \/ sockets[s].closeTask
                \/ sockets[s].readyState \in {"CLOSING", "CLOSED"})
    /\ [][\A s \in DOMAIN sockets :
            (sockets[s].isTimeout /\ sockets'[s] # sockets[s])
            => UNCHANGED instance]_vars
    /\ [](\A s \in DOMAIN sockets :
            sockets[s].timeout =>
                /\ ~sockets[s].opened
                /\ sockets[s].readyState # "CLOSED"
                /\ ~sockets[s].rejectTask
                /\ ~sockets[s].isTimeout)
    /\ [][\A s \in DOMAIN sockets :
            ~sockets[s].timeout => ~sockets'[s].timeout]_vars

\* a socket timed out while it was this.socket, a retry was scheduled, and
\* the socket's open and close events came afterwards
C15_Witness ==
    \E s \in DOMAIN sockets :
        /\ sockets[s].isTimeout
        /\ sockets[s].opened
        /\ sockets[s].readyState = "CLOSED"
        /\ sockets[s].promise = "rejected"
        /\ socket = 0
        /\ ~connected
        /\ ~connecting
        /\ reconnector # 0


\* --------------------------------------------------------------- C16
\* C16: between tasks the flags carried by the last StateChanged event
\* dispatched are the flags of the instance (all false before the first
\* connect() call, which dispatches the first event).
C16_StateChangedMirrorsFlags ==
    IF Len(calls) = 0
    THEN ~connecting /\ ~connected /\ ~reconnecting
    ELSE /\ stateEvent.connecting = connecting
         /\ stateEvent.connected = connected
         /\ stateEvent.reconnecting = reconnecting


\* --------------------------------------------------------------- C17
\* this step handles something of socket a (an event, its connect timer, or
\* a task one of them queued) while another socket is this.socket
StaleSocketStep(a) ==
    /\ socket # 0
    /\ a # socket
    /\ Len(sockets') = Len(sockets)
    /\ sockets'[a] # sockets[a]

\* C17: while a later socket is this.socket, a step of a stale socket leaves
\* connected, connecting and this.socket unchanged, settles neither the gate
\* nor the promise of the connect() call of this.socket, and sets no
\* reconnect timer.
C17_StaleSocketInert ==
    [][\A a \in DOMAIN sockets :
         StaleSocketStep(a)
         => /\ UNCHANGED <<connected, connecting, socket, reconnector>>
            /\ calls'[sockets[socket].call] = calls[sockets[socket].call]]_vars


\* --------------------------------------------------------------- C18
\* C18: the reply table holds only requests whose outcome is still open: an
\* entry is gone once its ack arrived or its reply timer fired.
C18_ReplyTableHoldsOpenRequests ==
    \A id \in DOMAIN replyHandlers :
        /\ replyHandlers[id]
        /\ \A r \in Owner(requests, id) : requests[r].send = "pending"


\* --------------------------------------------------------------- C19
\* C19: reconnector(false) adds one to reconnectAttempts and reconnector(true)
\* leaves it as it was.
C19_AttemptsCountNonFast ==
    [][\A fast \in BOOLEAN : \A jitter \in 0..(ReconnectSpreader - 1) :
         Scheduling(fast, jitter)
         => reconnectAttempts' =
                IF fast THEN reconnectAttempts ELSE reconnectAttempts + 1]_vars


\* --------------------------------------------------------------- C20
\* this step handles a goodbye message of this.socket
Goodbye ==
    /\ socket # 0
    /\ sockets[socket].onmessage
    /\ sockets[socket].readyState # "CLOSED"
    /\ Becomes(handleStreamWebSocketMessage(This, socket, "goodbye", 1))

\* this step handles the close event of this.socket after its goodbye
CloseAfterGoodbye ==
    /\ closing
    /\ socket # 0
    /\ sockets[socket].readyState # "CLOSED"
    /\ sockets'[socket].readyState = "CLOSED"

\* C20: (1) a goodbye of this.socket sets connected to false, calls close()
\* on the socket, which stays attached, and sets reconnectAttempts to 1;
\* (2) until that socket's close is handled or the socket is replaced,
\* connected stays false and reconnectAttempts stays at least 1; (3) the
\* close event then schedules the retry from a counter of at least 1, which
\* leaves the counter at 2 or more; (4) a counter that is not 0 becomes 0
\* only in a step in which this.socket opens.
C20_GoodbyeBacksOff ==
    /\ [][Goodbye =>
            /\ ~connected'
            /\ closing'
            /\ socket' = socket
            /\ sockets'[socket].readyState = "CLOSING"
            /\ reconnectAttempts' = 1]_vars
    /\ [](closing => (~connected /\ reconnectAttempts >= 1))
    /\ [][(CloseAfterGoodbye /\ reconnecting /\ sockets[socket].reconnector)
            => /\ reconnector' # 0
               /\ reconnectAttempts' = reconnectAttempts + 1
               /\ reconnectAttempts' >= 2]_vars
    /\ [][(reconnectAttempts # 0 /\ reconnectAttempts' = 0)
            => /\ socket' # 0
               /\ socket' = socket
               /\ connected'
               /\ ~sockets[socket].opened
               /\ sockets'[socket].opened]_vars

\* the only socket opened, said goodbye and closed: the retry is scheduled
\* and the counter stands at 2
C20_Witness ==
    /\ Len(calls) = 1
    /\ Len(sockets) = 1
    /\ sockets[1].onmessage
    /\ sockets[1].readyState = "CLOSED"
    /\ reconnectAttempts = 2
    /\ reconnector # 0
    /\ socket = 0
    /\ ~connected


\* --------------------------------------------------------------- C21
\* the states in which the close event of socket s is handled: the state
\* between two tasks, or, when the connection failed, the state the error
\* handler of the same task leaves
BeforeClose(s) ==
    LET closed == [This EXCEPT !.sockets[s].readyState = "CLOSED"]
    IN  {closed, onerror(closed, s)}

\* the fields of the instance in state st, and the promises of its callers
InstanceOf(st) ==
    <<st.connecting, st.connected, st.reconnecting, st.closing, st.socket,
      st.reconnector, st.reconnectAttempts, st.replyHandlers, st.gate,
      st.websocketSequence, st.calls, st.requests, st.stateEvent,
      st.errorEvents>>

\* this step ends with the close handler of socket s, run from state pre in
\* which s is not this.socket
StaleClose(pre, s, jitter) ==
    /\ sockets[s].readyState # "CLOSED"
    /\ s # pre.socket
    /\ Becomes(onclose(pre, s, jitter))

\* C21 as stated: a close event of a socket that is not this.socket sets the
\* reconnect timer to the plain reconnect interval when no socket is
\* attached, connecting is false and the socket was given a reconnector, and
\* changes nothing of the instance in every other case.
C21_StaleCloseAsStated ==
    [][\A s \in DOMAIN sockets : \A jitter \in Jitters :
         \A pre \in BeforeClose(s) :
            StaleClose(pre, s, jitter)
            => IF pre.socket = 0 /\ ~pre.connecting
                  /\ pre.sockets[s].reconnector
               THEN reconnector' = ReconnectInterval
               ELSE instance' = InstanceOf(pre)]_vars

\* C21, amended: the same, for a socket whose connect timer has not fired
\* and while reconnecting is true; the close event of a timed-out socket,
\* and a stale close while reconnecting is false, change nothing of the
\* instance.
C21_StaleCloseFastReconnect ==
    [][\A s \in DOMAIN sockets : \A jitter \in Jitters :
         \A pre \in BeforeClose(s) :
            StaleClose(pre, s, jitter)
            => IF pre.socket = 0 /\ ~pre.connecting
                  /\ pre.sockets[s].reconnector
                  /\ ~pre.sockets[s].isTimeout /\ pre.reconnecting
               THEN reconnector' = ReconnectInterval
               ELSE instance' = InstanceOf(pre)]_vars

\* the connection of the only socket failed: its error event detached it,
\* its close event then set the timer to the plain interval
C21_Witness ==
    /\ Len(calls) = 1
    /\ Len(sockets) = 1
    /\ socket = 0
    /\ sockets[1].readyState = "CLOSED"
    /\ sockets[1].rejectTask
    /\ ~sockets[1].isTimeout
    /\ reconnector = ReconnectInterval
    /\ reconnectAttempts = 1


\* --------------------------------------------------------------- C22
\* C22: while connected is true a socket is attached whose open event was
\* handled, and every step after which the socket that was attached is no
\* longer this.socket leaves connected false.
C22_ConnectedHasOpenSocket ==
    /\ [](connected => (socket # 0 /\ sockets[socket].opened
                        /\ sockets[socket].onmessage))
    /\ [][(socket # 0 /\ socket' # socket) => ~connected']_vars

\* a connected socket was replaced, and the client is connected again on the
\* socket that replaced it
C22_Witness ==
    /\ Len(sockets) = 2
    /\ sockets[1].onmessage
    /\ socket = 2
    /\ connected
    /\ sockets[2].opened

====
